---- MODULE Spec2Model ----
(***************************************************************************)
(* grid_print: a Grid of ColoredString cells rendered as a box-drawn       *)
(* table (src/src/lib.rs).  ColoredChar / ColoredString are the styled     *)
(* text layer, Grid the builder and Grid::print the renderer.              *)
(*                                                                         *)
(* Rust indices are 0-based, sequences here are 1-based: the code's        *)
(* `x_labels.len() > i` reads Len(x_labels) >= i, `i == len - 1` reads     *)
(* i = Len(grid), `x < len - 1` reads x < Len(grid).                       *)
(***************************************************************************)
EXTENDS Integers, Sequences, FiniteSets

VARIABLES
    x_labels,             \* Grid.x_labels: Seq(ColoredString)
    y_labels,             \* Grid.y_labels: Seq(ColoredString)
    static_column_width,  \* Grid.static_column_width
    draw_x_labels,        \* Grid.draw_x_labels
    draw_y_labels,        \* Grid.draw_y_labels
    grid,                 \* Grid.grid: columns, each a Seq(ColoredString)
    line_color,           \* Grid.line_color: Option<Color>
    x_label_color,        \* Grid.x_label_color
    y_label_color,        \* Grid.y_label_color
    cell_color,           \* Grid.cell_color
    status,               \* outcome of the most recent call: "built", "ok", "panic", "abort"
    out,                  \* `out` of the most recent Grid::print, when it completed
    sink,                 \* the sink operations of the most recent Grid::print
    call,                 \* the most recent call and its arguments
    emitted               \* history: the junction glyphs the renders have emitted

vars == <<x_labels, y_labels, static_column_width, draw_x_labels, draw_y_labels,
          grid, line_color, x_label_color, y_label_color, cell_color,
          status, out, sink, call, emitted>>

gridFields == <<x_labels, y_labels, static_column_width, draw_x_labels,
                draw_y_labels, grid, line_color, x_label_color, y_label_color,
                cell_color>>

----------------------------------------------------------------------------
(* Bounds of the model.                                                    *)

NumColors == 2
BuildLen == 1
BuildCount == 1
MaxCols == 2
MaxRows == 2
MaxLen == 1
MaxLabelLen == 2

----------------------------------------------------------------------------
(* Characters.  A char is a string token; the box-drawing glyphs are named *)
(* by their code points.                                                   *)

NoColor == 0
Colors == 1..NumColors
OptColors == {NoColor} \cup Colors

SPACE == " "
NEWLINE == "NL"
LETTER == "a"

LIGHT_V == "U+2502"
HEAVY_V == "U+2503"
LIGHT_H == "U+2500"
HEAVY_H == "U+2501"
TOP_GUTTER_LABELS == "U+2546"
TOP_FIRST_LABELS == "U+2522"
TOP_LAST_LABELS == "U+252A"
TOP_MID_LABELS == "U+253F"
TOP_GUTTER == "U+2532"
TOP_FIRST == "U+250F"
TOP_LAST == "U+2513"
TOP_MID == "U+252F"
ROW_GUTTER == "U+2542"
ROW_FIRST == "U+2520"
ROW_LAST == "U+2528"
ROW_MID == "U+253C"
BOTTOM_GUTTER == "U+253A"
BOTTOM_FIRST == "U+2517"
BOTTOM_LAST == "U+251B"
BOTTOM_MID == "U+2537"

----------------------------------------------------------------------------
(* ColoredChar and ColoredString.                                          *)

ColoredCharNew(c) == [char |-> c, color |-> NoColor]

ColoredCharColor(cc, color) == [cc EXCEPT !.color = color]

\* Mutant: the default overwrites a colour the character already has.
CharOverwriteColor(cc, color) == [cc EXCEPT !.color = color]

CharApplyDefaultColor(cc, color) ==
    IF cc.color = NoColor THEN [cc EXCEPT !.color = color] ELSE cc

ColoredStringNew == <<>>

PushChar(s, c) == Append(s, ColoredCharNew(c))

PushCharC(s, c, color) == Append(s, ColoredCharColor(ColoredCharNew(c), color))

PushCharRep(s, c, count) ==
    s \o [k \in 1..count |-> ColoredCharNew(c)]

PushCharRepC(s, c, color, count) ==
    s \o [k \in 1..count |-> ColoredCharColor(ColoredCharNew(c), color)]

PushColoredString(s, string) == s \o string

ApplyDefaultColor(s, color) ==
    [k \in 1..Len(s) |-> CharApplyDefaultColor(s[k], color)]

\* The parts of a sequence of sequences, appended in order (a loop that
\* pushes part after part).
RECURSIVE FlattenRange(_, _, _)
FlattenRange(parts, lo, hi) ==
    IF lo > hi THEN <<>>
    ELSE IF lo = hi THEN parts[lo]
    ELSE LET mid == (lo + hi) \div 2
         IN  FlattenRange(parts, lo, mid) \o FlattenRange(parts, mid + 1, hi)

Flatten(parts) == FlattenRange(parts, 1, Len(parts))

\* ColoredString::print: per character set_color then write_all; then
\* bufwtr.print, buffer.reset, buffer.flush.
WriteChars(chars) ==
    Flatten([k \in 1..Len(chars) |->
        << [op |-> "set_color", color |-> chars[k].color, char |-> ""],
           [op |-> "write", color |-> NoColor, char |-> chars[k].char] >>])

SinkOp(name) == [op |-> name, color |-> NoColor, char |-> ""]

\* Mutant: the buffer is presented before the characters are written to it.
ColoredStringPrintEarly(chars) ==
    <<SinkOp("print")>> \o WriteChars(chars)
    \o <<SinkOp("reset"), SinkOp("flush")>>

ColoredStringPrint(chars) ==
    WriteChars(chars) \o <<SinkOp("print"), SinkOp("reset"), SinkOp("flush")>>

----------------------------------------------------------------------------
(* Grid::print, width computation (lines 224-252).                         *)

RECURSIVE RunningMax(_, _)
RunningMax(lens, acc) ==
    IF lens = <<>> THEN acc
    ELSE RunningMax(Tail(lens), IF Head(lens) > acc THEN Head(lens) ELSE acc)

Lens(strings) == [k \in 1..Len(strings) |-> Len(strings[k])]

\* Mutant: the x-label is left out of the column's width.
ColumnWidthCellsOnly(i) == RunningMax(Lens(grid[i]), 0)

ColumnWidth(i) ==
    LET cells == RunningMax(Lens(grid[i]), 0)
    IN  IF draw_x_labels /\ Len(x_labels) >= i /\ Len(x_labels[i]) > cells
        THEN Len(x_labels[i])
        ELSE cells

column_widths == [i \in 1..Len(grid) |-> ColumnWidth(i)]

largest_width == RunningMax(column_widths, 0)

label_width == RunningMax(Lens(y_labels), 0)

Width(i) == IF static_column_width THEN largest_width ELSE column_widths[i]

----------------------------------------------------------------------------
(* Grid::print, drawing (lines 254-404).                                   *)

PadA(diff) == diff \div 2

\* Mutant: the odd space is dropped.
PadBNoOdd(diff) == PadA(diff)

PadB(diff) == IF diff % 2 = 0 THEN PadA(diff) ELSE PadA(diff) + 1

\* pad_a spaces, the string, pad_b spaces, with diff = width + 2 - len.
Centered(width, string) ==
    LET diff == width + 2 - Len(string)
    IN  PushCharRep(PushColoredString(PushCharRep(<<>>, SPACE, PadA(diff)), string),
                    SPACE, PadB(diff))

\* Mutant: the first junction is chosen by the wrong flag.
HorizontalLineWrongFlag(gutter, first, run, last, mid) ==
    (IF draw_y_labels
     THEN PushCharC(PushCharRepC(<<>>, LIGHT_H, line_color, label_width + 1),
                    IF static_column_width THEN gutter ELSE first, line_color)
     ELSE PushCharC(<<>>, first, line_color))
    \o Flatten([i \in 1..Len(grid) |->
           PushCharC(PushCharRepC(<<>>, run, line_color, Width(i) + 2),
                     IF i = Len(grid) THEN last ELSE mid, line_color)])

\* One horizontal line: the gutter run and its junction (or the plain first
\* junction), then per column the run and the last / interior junction.
HorizontalLine(gutter, first, run, last, mid) ==
    (IF draw_y_labels
     THEN PushCharC(PushCharRepC(<<>>, LIGHT_H, line_color, label_width + 1),
                    gutter, line_color)
     ELSE PushCharC(<<>>, first, line_color))
    \o Flatten([i \in 1..Len(grid) |->
           PushCharC(PushCharRepC(<<>>, run, line_color, Width(i) + 2),
                     IF i = Len(grid) THEN last ELSE mid, line_color)])

\* Mutant: the blank gutter of the label row is one space short.
LabelRowShortGutter ==
    (IF draw_y_labels THEN PushCharRep(<<>>, SPACE, label_width) ELSE <<>>)
    \o PushCharC(<<>>, LIGHT_V, line_color)
    \o Flatten([i \in 1..Len(grid) |->
           PushCharC(Centered(Width(i), x_labels[i]), LIGHT_V, line_color)])
    \o PushChar(<<>>, NEWLINE)

LabelRow ==
    (IF draw_y_labels THEN PushCharRep(<<>>, SPACE, label_width + 1) ELSE <<>>)
    \o PushCharC(<<>>, LIGHT_V, line_color)
    \o Flatten([i \in 1..Len(grid) |->
           PushCharC(Centered(Width(i), x_labels[i]), LIGHT_V, line_color)])
    \o PushChar(<<>>, NEWLINE)

TopBorder ==
    IF draw_x_labels
    THEN LabelRow
         \o HorizontalLine(TOP_GUTTER_LABELS, TOP_FIRST_LABELS, HEAVY_H,
                           TOP_LAST_LABELS, TOP_MID_LABELS)
         \o PushChar(<<>>, NEWLINE)
    ELSE HorizontalLine(TOP_GUTTER, TOP_FIRST, HEAVY_H, TOP_LAST, TOP_MID)
         \o PushChar(<<>>, NEWLINE)

RowDivider ==
    HorizontalLine(ROW_GUTTER, ROW_FIRST, LIGHT_H, ROW_LAST, ROW_MID)
    \o PushChar(<<>>, NEWLINE)

\* Mutant: the label is pushed before its padding (left-aligned).
YLabelGutterLeft(y) ==
    IF draw_y_labels
    THEN PushChar(PushCharRep(PushColoredString(<<>>, y_labels[y]),
                              SPACE, label_width - Len(y_labels[y])), SPACE)
    ELSE <<>>

YLabelGutter(y) ==
    IF draw_y_labels
    THEN PushChar(PushColoredString(
             PushCharRep(<<>>, SPACE, label_width - Len(y_labels[y])),
             y_labels[y]), SPACE)
    ELSE <<>>

RowBody(y) ==
    YLabelGutter(y)
    \o PushCharC(<<>>, HEAVY_V, line_color)
    \o Flatten([x \in 1..Len(grid) |->
           Centered(Width(x), grid[x][y])
           \o (IF x < Len(grid) THEN PushCharC(<<>>, LIGHT_V, line_color) ELSE <<>>)])
    \o PushCharC(<<>>, HEAVY_V, line_color)
    \o PushChar(<<>>, NEWLINE)

\* Mutant: a divider line follows the last row too.
RowsDividerAfterEach ==
    Flatten([y \in 1..Len(grid[1]) |-> RowBody(y) \o RowDivider])

Rows ==
    Flatten([y \in 1..Len(grid[1]) |->
        RowBody(y) \o (IF y < Len(grid[1]) THEN RowDivider ELSE <<>>)])

BottomBorder ==
    HorizontalLine(BOTTOM_GUTTER, BOTTOM_FIRST, HEAVY_H, BOTTOM_LAST, BOTTOM_MID)

Render == ColoredStringNew \o TopBorder \o Rows \o BottomBorder

----------------------------------------------------------------------------
(* Grid::print, the places that fail.  An index out of bounds panics; a    *)
(* usize subtraction below zero panics in a build with overflow checks and *)
(* wraps to a count near 2^64 without them, which push_char_rep cannot     *)
(* allocate: the process aborts.                                           *)

\* self.x_labels[i] (line 267)
XLabelIndexPanics ==
    draw_x_labels /\ \E i \in 1..Len(grid) : Len(x_labels) < i

\* self.grid[0] (line 327)
FirstColumnIndexPanics == Len(grid) = 0

\* self.y_labels[y] (line 329)
YLabelIndexPanics ==
    draw_y_labels /\ \E y \in 1..Len(grid[1]) : Len(y_labels) < y

\* self.grid[x][y] (line 342)
CellIndexPanics ==
    \E y \in 1..Len(grid[1]) : \E x \in 1..Len(grid) : Len(grid[x]) < y

IndexPanics ==
    \/ XLabelIndexPanics
    \/ FirstColumnIndexPanics
    \/ YLabelIndexPanics
    \/ CellIndexPanics

\* width + 2 - len (lines 267, 342) and label_width - len (line 329)
Underflows ==
    \/ draw_x_labels /\ \E i \in 1..Len(grid) :
           Len(x_labels) >= i /\ Width(i) + 2 - Len(x_labels[i]) < 0
    \/ Len(grid) > 0 /\ \E y \in 1..Len(grid[1]) :
           \/ draw_y_labels /\ Len(y_labels) >= y
                  /\ label_width - Len(y_labels[y]) < 0
           \/ \E x \in 1..Len(grid) :
                  Len(grid[x]) >= y /\ Width(x) + 2 - Len(grid[x][y]) < 0

PrintStatuses ==
    IF IndexPanics \/ Underflows
    THEN (IF IndexPanics THEN {"panic"} ELSE {})
         \cup (IF Underflows THEN {"panic", "abort"} ELSE {})
    ELSE {"ok"}

----------------------------------------------------------------------------
(* The junction glyphs of a rendered output, read back from its lines.     *)

NewlinePositions(chars) == {k \in 1..Len(chars) : chars[k].char = NEWLINE}

\* The lines of an output: what stands between its newlines.
Lines(chars) ==
    LET nls == NewlinePositions(chars)
        Nth(n) == CHOOSE k \in nls : Cardinality({j \in nls : j <= k}) = n
    IN  [n \in 1..(Cardinality(nls) + 1) |->
            SubSeq(chars,
                   IF n = 1 THEN 1 ELSE Nth(n - 1) + 1,
                   IF n = Cardinality(nls) + 1 THEN Len(chars) ELSE Nth(n) - 1)]

TopGlyphs == {TOP_GUTTER_LABELS, TOP_FIRST_LABELS, TOP_LAST_LABELS, TOP_MID_LABELS,
              TOP_GUTTER, TOP_FIRST, TOP_LAST, TOP_MID}
RowGlyphs == {ROW_GUTTER, ROW_FIRST, ROW_LAST, ROW_MID}
BottomGlyphs == {BOTTOM_GUTTER, BOTTOM_FIRST, BOTTOM_LAST, BOTTOM_MID}
JunctionGlyphs == TopGlyphs \cup RowGlyphs \cup BottomGlyphs

JunctionPositions(line) == {k \in 1..Len(line) : line[k].char \in JunctionGlyphs}

DividerKind(glyph) ==
    IF glyph \in TopGlyphs THEN "top"
    ELSE IF glyph \in RowGlyphs THEN "row" ELSE "bottom"

\* <<edge position, divider kind, gutter present, x-labels drawn, glyph>>
JunctionsOfLine(line, gutter, xl) ==
    LET ps == JunctionPositions(line)
    IN  { << (IF \A q \in ps : k <= q THEN "first"
              ELSE IF \A q \in ps : q <= k THEN "last" ELSE "interior"),
             DividerKind(line[k].char), gutter, xl, line[k].char >> : k \in ps }

Junctions(chars) ==
    LET ls == Lines(chars)
    IN  UNION { JunctionsOfLine(ls[n], draw_y_labels, draw_x_labels) : n \in 1..Len(ls) }

----------------------------------------------------------------------------
(* The calls.                                                              *)

Call(op, color, flag, labels, columns) ==
    [op |-> op, color |-> color, flag |-> flag, labels |-> labels, columns |-> columns]

Built(c) ==
    /\ status' = "built"
    /\ out' = <<>>
    /\ sink' = <<>>
    /\ call' = c
    /\ UNCHANGED emitted

GridNew ==
    /\ x_labels = <<>>
    /\ y_labels = <<>>
    /\ static_column_width = FALSE
    /\ draw_x_labels = TRUE
    /\ draw_y_labels = TRUE
    /\ grid = <<>>
    /\ line_color = NoColor
    /\ x_label_color = NoColor
    /\ y_label_color = NoColor
    /\ cell_color = NoColor

NoCall ==
    /\ status = "built"
    /\ out = <<>>
    /\ sink = <<>>
    /\ call = Call("new", NoColor, FALSE, <<>>, <<>>)
    /\ emitted = {}

SetLineColor(color) ==
    /\ line_color' = color
    /\ UNCHANGED <<x_labels, y_labels, static_column_width, draw_x_labels,
                   draw_y_labels, grid, x_label_color, y_label_color, cell_color>>
    /\ Built(Call("set_line_color", color, FALSE, <<>>, <<>>))

SetXLabelColor(color) ==
    /\ x_label_color' = color
    /\ UNCHANGED <<x_labels, y_labels, static_column_width, draw_x_labels,
                   draw_y_labels, grid, line_color, y_label_color, cell_color>>
    /\ Built(Call("set_x_label_color", color, FALSE, <<>>, <<>>))

SetYLabelColor(color) ==
    /\ y_label_color' = color
    /\ UNCHANGED <<x_labels, y_labels, static_column_width, draw_x_labels,
                   draw_y_labels, grid, line_color, x_label_color, cell_color>>
    /\ Built(Call("set_y_label_color", color, FALSE, <<>>, <<>>))

SetCellColor(color) ==
    /\ cell_color' = color
    /\ UNCHANGED <<x_labels, y_labels, static_column_width, draw_x_labels,
                   draw_y_labels, grid, line_color, x_label_color, y_label_color>>
    /\ Built(Call("set_cell_color", color, FALSE, <<>>, <<>>))

SetStaticColumnWidth(flag) ==
    /\ static_column_width' = flag
    /\ UNCHANGED <<x_labels, y_labels, draw_x_labels, draw_y_labels, grid,
                   line_color, x_label_color, y_label_color, cell_color>>
    /\ Built(Call("set_static_column_width", NoColor, flag, <<>>, <<>>))

SetDrawXLabels(flag) ==
    /\ draw_x_labels' = flag
    /\ UNCHANGED <<x_labels, y_labels, static_column_width, draw_y_labels, grid,
                   line_color, x_label_color, y_label_color, cell_color>>
    /\ Built(Call("set_draw_x_labels", NoColor, flag, <<>>, <<>>))

SetDrawYLabels(flag) ==
    /\ draw_y_labels' = flag
    /\ UNCHANGED <<x_labels, y_labels, static_column_width, draw_x_labels, grid,
                   line_color, x_label_color, y_label_color, cell_color>>
    /\ Built(Call("set_draw_y_labels", NoColor, flag, <<>>, <<>>))

SetXLabels(labels) ==
    /\ x_labels' = [k \in 1..Len(labels) |-> ApplyDefaultColor(labels[k], x_label_color)]
    /\ UNCHANGED <<y_labels, static_column_width, draw_x_labels, draw_y_labels,
                   grid, line_color, x_label_color, y_label_color, cell_color>>
    /\ Built(Call("set_x_labels", NoColor, FALSE, labels, <<>>))

SetYLabels(labels) ==
    /\ y_labels' = [k \in 1..Len(labels) |-> ApplyDefaultColor(labels[k], y_label_color)]
    /\ UNCHANGED <<x_labels, static_column_width, draw_x_labels, draw_y_labels,
                   grid, line_color, x_label_color, y_label_color, cell_color>>
    /\ Built(Call("set_y_labels", NoColor, FALSE, labels, <<>>))

SetGrid(columns) ==
    /\ grid' = [i \in 1..Len(columns) |->
                   [j \in 1..Len(columns[i]) |->
                       ApplyDefaultColor(columns[i][j], cell_color)]]
    /\ UNCHANGED <<x_labels, y_labels, static_column_width, draw_x_labels,
                   draw_y_labels, line_color, x_label_color, y_label_color,
                   cell_color>>
    /\ Built(Call("set_grid", NoColor, FALSE, <<>>, columns))

\* Grid::print: nothing reaches the sink unless the whole output was built.
GridPrintCall ==
    /\ \E st \in PrintStatuses :
          /\ status' = st
          /\ out' = IF st = "ok" THEN Render ELSE <<>>
          /\ sink' = IF st = "ok" THEN ColoredStringPrint(out') ELSE <<>>
    /\ call' = Call("print", NoColor, FALSE, <<>>, <<>>)
    /\ UNCHANGED gridFields

GridPrint ==
    /\ GridPrintCall
    /\ UNCHANGED emitted

\* Grid::print with the history of emitted junction glyphs kept.
GridPrintTracked ==
    /\ GridPrintCall
    /\ emitted' = emitted \cup Junctions(out')

----------------------------------------------------------------------------
(* Inputs.                                                                 *)

SeqsUpTo(S, n) == UNION {[1..k -> S] : k \in 0..n}

StringsOver(colors, n) == SeqsUpTo({[char |-> LETTER, color |-> c] : c \in colors}, n)

BuildStrings == StringsOver(OptColors, BuildLen)
BuildLabels == SeqsUpTo(BuildStrings, BuildCount)
BuildGrids == SeqsUpTo(SeqsUpTo(BuildStrings, BuildCount), BuildCount)

PlainCells == StringsOver({NoColor}, MaxLen)
PlainLabels == StringsOver({NoColor}, MaxLabelLen)
RenderGrids == SeqsUpTo(SeqsUpTo(PlainCells, MaxRows), MaxCols)

----------------------------------------------------------------------------
(* Spec: a Grid built from Grid::new() by any sequence of colour and       *)
(* attach calls and prints, the three toggles as Grid::new() sets them     *)
(* (SpecJunction changes the toggles).                                     *)

Init == GridNew /\ NoCall

Next ==
    \/ \E color \in Colors : SetLineColor(color)
    \/ \E color \in Colors : SetXLabelColor(color)
    \/ \E color \in Colors : SetYLabelColor(color)
    \/ \E color \in Colors : SetCellColor(color)
    \/ \E labels \in BuildLabels : SetXLabels(labels)
    \/ \E labels \in BuildLabels : SetYLabels(labels)
    \/ \E columns \in BuildGrids : SetGrid(columns)
    \/ GridPrint

Spec == Init /\ [][Next]_vars

(* SpecRender: one print of every uncoloured Grid value within the bounds  *)
(* (each is what set_grid, set_x_labels, set_y_labels and the three        *)
(* toggles build).                                                         *)

InitRender ==
    /\ grid \in RenderGrids
    /\ x_labels \in SeqsUpTo(PlainLabels, MaxCols)
    /\ y_labels \in SeqsUpTo(PlainLabels, MaxRows)
    /\ static_column_width \in BOOLEAN
    /\ draw_x_labels \in BOOLEAN
    /\ draw_y_labels \in BOOLEAN
    /\ line_color = NoColor
    /\ x_label_color = NoColor
    /\ y_label_color = NoColor
    /\ cell_color = NoColor
    /\ NoCall

NextRender == GridPrint

SpecRender == InitRender /\ [][NextRender]_vars

(* SpecJunction: a well-formed table of every shape within the bounds,     *)
(* rendered again and again under changing toggles.                        *)

InitJunction ==
    /\ \E c \in 1..MaxCols, r \in 1..MaxRows :
          /\ grid = [i \in 1..c |-> [j \in 1..r |-> <<ColoredCharNew(LETTER)>>]]
          /\ x_labels = [i \in 1..c |-> <<ColoredCharNew(LETTER)>>]
          /\ y_labels = [j \in 1..r |-> <<ColoredCharNew(LETTER)>>]
    /\ static_column_width = FALSE
    /\ draw_x_labels = TRUE
    /\ draw_y_labels = TRUE
    /\ line_color = NoColor
    /\ x_label_color = NoColor
    /\ y_label_color = NoColor
    /\ cell_color = NoColor
    /\ NoCall

NextJunction ==
    \/ \E flag \in BOOLEAN : SetStaticColumnWidth(flag)
    \/ \E flag \in BOOLEAN : SetDrawXLabels(flag)
    \/ \E flag \in BOOLEAN : SetDrawYLabels(flag)
    \/ GridPrintTracked

SpecJunction == InitJunction /\ [][NextJunction]_vars

----------------------------------------------------------------------------
(* What the claims speak of: the grid's shape, the widths as the           *)
(* specification defines them, and the lines of the output.                *)

Printed == call.op = "print"

NumRows == Len(grid[1])

Ragged == \E i, k \in 1..Len(grid) : Len(grid[i]) # Len(grid[k])

WellFormed ==
    /\ Len(grid) >= 1
    /\ NumRows >= 1
    /\ ~Ragged
    /\ draw_x_labels => Len(x_labels) >= Len(grid)
    /\ draw_y_labels => Len(y_labels) >= NumRows

SetMax(S) == IF S = {} THEN 0 ELSE CHOOSE m \in S : \A n \in S : n <= m

OwnWidth(i) ==
    SetMax({Len(grid[i][j]) : j \in 1..Len(grid[i])}
           \cup (IF draw_x_labels THEN {Len(x_labels[i])} ELSE {}))

EffectiveWidth(i) ==
    IF static_column_width
    THEN SetMax({OwnWidth(k) : k \in 1..Len(grid)})
    ELSE OwnWidth(i)

LabelWidth == SetMax({Len(y_labels[k]) : k \in 1..Len(y_labels)})

GutterLen == IF draw_y_labels THEN LabelWidth + 1 ELSE 0

\* The character column of the divider that closes column k (k = 0: the
\* divider that opens the table).
RECURSIVE Boundary(_)
Boundary(k) ==
    IF k = 0 THEN GutterLen + 1 ELSE Boundary(k - 1) + EffectiveWidth(k) + 3

Dividers == JunctionGlyphs \cup {LIGHT_V, HEAVY_V}

DividerPositions(line) == {k \in 1..Len(line) : line[k].char \in Dividers}

Field(line, x) == SubSeq(line, Boundary(x - 1) + 1, Boundary(x) - 1)

Letters(chars) == Cardinality({k \in 1..Len(chars) : chars[k].char = LETTER})

Spaces(n) == [k \in 1..n |-> ColoredCharNew(SPACE)]

HeaderLines == IF draw_x_labels THEN 2 ELSE 1

BodyLineNo(y) == HeaderLines + 2 * y - 1

LineKind(line) ==
    IF Len(line) < GutterLen + 1 THEN "short"
    ELSE LET g == line[GutterLen + 1].char
         IN  IF g = LIGHT_V THEN "labels"
             ELSE IF g = HEAVY_V THEN "body"
             ELSE IF g \in TopGlyphs THEN "top"
             ELSE IF g \in RowGlyphs THEN "divider"
             ELSE IF g \in BottomGlyphs THEN "bottom"
             ELSE "other"

ExpectedKinds ==
    (IF draw_x_labels THEN <<"labels", "top">> ELSE <<"top">>)
    \o [n \in 1..(2 * NumRows - 1) |-> IF n % 2 = 1 THEN "body" ELSE "divider"]
    \o <<"bottom">>

----------------------------------------------------------------------------
(* The claims.                                                             *)

\* C1: a print of a grid in which two columns have different row counts
\* never completes: it fails, whichever column is the longer one.
C1_RaggedRejected == (Printed /\ Ragged) => status # "ok"

\* C2: a print of a grid with no columns, or with columns but zero rows,
\* never completes normally, whatever the three toggles are.
C2_EmptyRejected ==
    (Printed /\ (Len(grid) = 0 \/ NumRows = 0)) => status # "ok"

\* C3: for a well-formed grid the print completes and, on every line of the
\* output, the dividers stand exactly where the effective widths (the
\* column's own maximum of cell and drawn x-label lengths, or the maximum of
\* those over all columns when static_column_width is set) put them; the
\* field of every cell and x-label holds all of its characters.
C3_EffectiveWidth ==
    (Printed /\ WellFormed) =>
        /\ status = "ok"
        /\ LET ls == Lines(out)
           IN  /\ \A n \in 1..Len(ls) :
                      DividerPositions(ls[n]) = {Boundary(k) : k \in 0..Len(grid)}
               /\ \A y \in 1..NumRows : \A x \in 1..Len(grid) :
                      /\ BodyLineNo(y) <= Len(ls)
                      /\ Letters(Field(ls[BodyLineNo(y)], x)) = Len(grid[x][y])
                      /\ Len(grid[x][y]) <= EffectiveWidth(x)
               /\ draw_x_labels => \A x \in 1..Len(grid) :
                      /\ Letters(Field(ls[1], x)) = Len(x_labels[x])
                      /\ Len(x_labels[x]) <= EffectiveWidth(x)

C3_Witness ==
    /\ Printed /\ WellFormed /\ status = "ok"
    /\ Len(grid) = 2
    /\ draw_x_labels
    /\ Len(x_labels[1]) > SetMax({Len(grid[1][j]) : j \in 1..NumRows})
    /\ OwnWidth(1) < OwnWidth(2)
    /\ static_column_width

\* C4: every cell and every x-label is centered in its field of width
\* W = effective width + 2: (W - L) div 2 spaces, the text, then the rest of
\* W - L as spaces, with left <= right <= left + 1; W - L is never negative,
\* so the print of a well-formed grid never fails on the subtraction.
C4_Centering ==
    (Printed /\ WellFormed) =>
        /\ status = "ok"
        /\ LET ls == Lines(out)
           IN  /\ \A y \in 1..NumRows : \A x \in 1..Len(grid) :
                      /\ BodyLineNo(y) <= Len(ls)
                      /\ Len(ls[BodyLineNo(y)]) >= Boundary(x)
                      /\ Field(ls[BodyLineNo(y)], x) =
                             (LET W == EffectiveWidth(x) + 2
                                  L == Len(grid[x][y])
                              IN  Spaces((W - L) \div 2) \o grid[x][y]
                                  \o Spaces((W - L) - (W - L) \div 2))
                      /\ EffectiveWidth(x) + 2 - Len(grid[x][y]) >= 0
               /\ draw_x_labels => \A x \in 1..Len(grid) :
                      /\ Len(ls[1]) >= Boundary(x)
                      /\ Field(ls[1], x) =
                             (LET W == EffectiveWidth(x) + 2
                                  L == Len(x_labels[x])
                              IN  Spaces((W - L) \div 2) \o x_labels[x]
                                  \o Spaces((W - L) - (W - L) \div 2))
                      /\ EffectiveWidth(x) + 2 - Len(x_labels[x]) >= 0

C4_Witness ==
    /\ Printed /\ WellFormed /\ status = "ok"
    /\ draw_x_labels
    /\ \E x \in 1..Len(grid) : \E y \in 1..NumRows :
          /\ (EffectiveWidth(x) - Len(grid[x][y])) % 2 = 1
          /\ Len(grid[x][y]) > 0
    /\ \E x \in 1..Len(grid) :
          /\ (EffectiveWidth(x) - Len(x_labels[x])) % 2 = 1
          /\ Len(x_labels[x]) > 0

\* The colours of a string attached under a region default.
Filled(string, default) ==
    [n \in 1..Len(string) |->
        [char |-> string[n].char,
         color |-> IF string[n].color # NoColor THEN string[n].color ELSE default]]

\* C5: a step that attaches labels or cells gives each character its own
\* colour if it has one and otherwise the region's default colour as it is
\* at that call; every other step, the colour setters among them, leaves
\* the attached labels and cells as they are.
C5_AttachColors ==
    [][ /\ IF call'.op = "set_x_labels"
           THEN x_labels' = [k \in 1..Len(call'.labels) |->
                                Filled(call'.labels[k], x_label_color)]
           ELSE x_labels' = x_labels
        /\ IF call'.op = "set_y_labels"
           THEN y_labels' = [k \in 1..Len(call'.labels) |->
                                Filled(call'.labels[k], y_label_color)]
           ELSE y_labels' = y_labels
        /\ IF call'.op = "set_grid"
           THEN grid' = [i \in 1..Len(call'.columns) |->
                            [j \in 1..Len(call'.columns[i]) |->
                                Filled(call'.columns[i][j], cell_color)]]
           ELSE grid' = grid
      ]_vars

C5_Witness ==
    /\ call.op = "set_cell_color"
    /\ x_label_color # NoColor
    /\ \E k \in 1..Len(x_labels) : \E n \in 1..Len(x_labels[k]) :
          x_labels[k][n].color = NoColor
    /\ y_label_color # NoColor
    /\ \E k \in 1..Len(y_labels) : \E n \in 1..Len(y_labels[k]) :
          y_labels[k][n].color \notin {NoColor, y_label_color}
    /\ \E i \in 1..Len(grid) : \E j \in 1..Len(grid[i]) :
          \E n \in 1..Len(grid[i][j]) :
             grid[i][j][n].color \notin {NoColor, cell_color}

\* C6: the sink operations of a completed print are, for each character of
\* the output in order, set-color with that character's colour and then the
\* write of that character, then one present, one reset-color and one
\* flush, and nothing else.
C6_SinkSequence ==
    (Printed /\ status = "ok") =>
        /\ Len(sink) = 2 * Len(out) + 3
        /\ \A k \in 1..Len(out) :
              /\ sink[2 * k - 1].op = "set_color"
              /\ sink[2 * k - 1].color = out[k].color
              /\ sink[2 * k].op = "write"
              /\ sink[2 * k].char = out[k].char
        /\ sink[Len(sink) - 2].op = "print"
        /\ sink[Len(sink) - 1].op = "reset"
        /\ sink[Len(sink)].op = "flush"
        /\ Cardinality({k \in 1..Len(sink) : sink[k].op = "print"}) = 1
        /\ Cardinality({k \in 1..Len(sink) : sink[k].op = "reset"}) = 1
        /\ Cardinality({k \in 1..Len(sink) : sink[k].op = "flush"}) = 1

C6_Witness ==
    /\ Printed /\ status = "ok"
    /\ line_color # NoColor
    /\ \E k \in 1..Len(out) : out[k].color \notin {NoColor, line_color}
    /\ \E k \in 1..Len(out) : out[k].color = NoColor /\ out[k].char = LETTER

\* C7: in a completed print with y-labels drawn, every row body starts with
\* the row's y-label right-aligned in a field as wide as the longest of all
\* y-labels (label_width - L spaces, then the label), then one space and
\* the heavy vertical divider.
C7_YLabelGutter ==
    (Printed /\ status = "ok" /\ draw_y_labels) =>
        LET ls == Lines(out)
        IN  \A y \in 1..NumRows :
               /\ BodyLineNo(y) <= Len(ls)
               /\ Len(ls[BodyLineNo(y)]) >= LabelWidth + 2
               /\ LabelWidth >= Len(y_labels[y])
               /\ SubSeq(ls[BodyLineNo(y)], 1, LabelWidth + 2) =
                      Spaces(LabelWidth - Len(y_labels[y])) \o y_labels[y]
                      \o <<ColoredCharNew(SPACE),
                           [char |-> HEAVY_V, color |-> line_color]>>

C7_Witness ==
    /\ Printed /\ status = "ok" /\ draw_y_labels
    /\ NumRows = 2
    /\ Len(y_labels[1]) > 0
    /\ Len(y_labels[1]) < LabelWidth
    /\ Len(y_labels[2]) = LabelWidth

C9_LineOrder ==
    (Printed /\ WellFormed) =>
        /\ status = "ok"
        /\ LET ls == Lines(out)
           IN  /\ Len(ls) = (IF draw_x_labels THEN 2 ELSE 1) + (2 * NumRows - 1) + 1
               /\ [n \in 1..Len(ls) |-> LineKind(ls[n])] = ExpectedKinds
               /\ \A y \in 1..NumRows : \A x \in 1..Len(grid) :
                      Letters(Field(ls[BodyLineNo(y)], x)) = Len(grid[x][y])

C9_Witness ==
    /\ Printed /\ WellFormed /\ status = "ok"
    /\ NumRows = 2
    /\ draw_x_labels
    /\ \E x \in 1..Len(grid) : Len(grid[x][1]) # Len(grid[x][2])

\* C10: all lines of the output of a well-formed grid have the same number
\* of characters, the gutter (label_width + 1 with y-labels drawn) plus 1
\* plus, for every column, its effective width plus 3.
C10_LineLength ==
    (Printed /\ WellFormed) =>
        /\ status = "ok"
        /\ LET ls == Lines(out)
           IN  \A n \in 1..Len(ls) : Len(ls[n]) = Boundary(Len(grid))

C10_Witness ==
    /\ Printed /\ WellFormed /\ status = "ok"
    /\ draw_x_labels /\ draw_y_labels
    /\ Len(grid) = 2 /\ NumRows = 2
    /\ LabelWidth > 0
    /\ OwnWidth(1) # OwnWidth(2)

====
